---------------------------- MODULE Spec2Model ----------------------------
(***************************************************************************)
(* A model of packages/cli/src/utils/prompt.ts (zos CLI) and of the unlink *)
(* command that calls it.                                                   *)
(*                                                                         *)
(* Four specifications share the module:                                   *)
(*   SpecPrompt   promptIfNeeded / answersFor / promptFor / hasEmptyChoices*)
(*   SpecProxy    proxyInfo and proxiesList                                *)
(*   SpecCatalog  contractsList                                            *)
(*   SpecMethods  argsList, initArgsForPrompt, contractMethods             *)
(***************************************************************************)
EXTENDS Integers, Sequences, FiniteSets, TLC

VARIABLES
    \* ---- promptIfNeeded -------------------------------------------------
    args,           \* the caller's args object (a JS object: it can be mutated)
    opts,           \* the caller's opts object
    args0,          \* history: args as the caller passed it
    opts0,          \* history: opts as the caller passed it
    props,          \* name -> QuestionSpec
    defaults,       \* the defaults parameter (possibly not given)
    interactive,    \* the interactive parameter: "true", "false", "undefined"
    pc,             \* position of the promptIfNeeded call
    argsQuestions,  \* prompt.ts:32
    optsQuestions,  \* prompt.ts:37
    argsAnswers,    \* what answersFor(args, ...) resolved to
    result,         \* the object promptIfNeeded resolves to
    failure,        \* the rejection of promptIfNeeded, if any
    promptLog,      \* the question lists handed to inquirer.prompt, in order
    \* ---- proxyInfo / proxiesList / contractsList / argsList ---------------
    env,            \* the collaborators' state the call reads
    call,           \* the last call made: operation and actual parameters
    ret             \* what that call returned

promptVars == <<args, opts, args0, opts0, props, defaults, interactive, pc,
                argsQuestions, optsQuestions, argsAnswers, result, failure,
                promptLog>>
callVars == <<env, call, ret>>
vars == <<promptVars, callVars>>

(***************************************************************************)
(* JavaScript values.  A value is a record [v, n]: v names the value and n *)
(* counts the applications of a QuestionSpec's normalize to it, so that a  *)
(* normalized value differs from the value it was computed from.           *)
(***************************************************************************)
Val(s) == [v |-> s, n |-> 0]
Undef == Val("undefined")
EmptyStr == Val("''")
EmptyList == Val("[]")
False == Val("false")

\* lodash.isempty: undefined, a boolean, the empty string and the empty array
\* are all empty; a non-empty string or array is not.
isEmpty(val) == val.n = 0 /\ val.v \in {"undefined", "false", "''", "[]"}

\* JavaScript falsiness, as `||` and `&&` read it ([] is truthy).
Falsy(val) == val.n = 0 /\ val.v \in {"undefined", "false", "''"}

\* props[name].normalize(value): an arbitrary caller-supplied transform.
normalize(val) == [val EXCEPT !.n = @ + 1]

\* The parameter names of the calls modelled: unlink's argument and a push
\* option.
Names == {"dependencies", "network"}
NameOrder == <<"dependencies", "network">>

\* Object.keys(o) of an object whose keys are a set S of names.
Keys(S) == SelectSeq(NameOrder, LAMBDA k : k \in S)


(***************************************************************************)
(* Objects.  A JS object with keys among Names is a function whose domain  *)
(* is its key set.                                                         *)
(***************************************************************************)
EmptyObject == [k \in {} |-> Undef]

\* { ...a, ...b }
Spread(a, b) ==
    [k \in (DOMAIN a) \cup (DOMAIN b) |-> IF k \in DOMAIN b THEN b[k] ELSE a[k]]

\* The choices of a QuestionSpec: absent, a static empty list, a static
\* non-empty list, or a function of the previous answers.
ChoiceKinds == {"undefined", "[]", "list", "function"}

\* `choices &&`: only an absent choices is falsy.
ChoicesTruthy(c) == c # "undefined"
\* lodash.isempty(choices): a function has no own enumerable keys.
ChoicesIsEmpty(c) == c \in {"undefined", "[]", "function"}

\* A variant of hasEmptyChoices with the typeof test inverted.
hasEmptyChoices_TypeofInverted(spec) ==
    /\ ChoicesTruthy(spec.choices)
    /\ ChoicesIsEmpty(spec.choices)
    /\ spec.choices = "function"

\* prompt.ts:224 hasEmptyChoices({ choices })
hasEmptyChoices(spec) ==
    /\ ChoicesTruthy(spec.choices)
    /\ ChoicesIsEmpty(spec.choices)
    /\ spec.choices # "function"

\* prompt.ts:214 promptFor(name, defaults, props)
promptFor(name, dflts, prps) ==
    LET defaultValue == IF dflts.given /\ name \in DOMAIN dflts.entries
                        THEN dflts.entries[name]
                        ELSE Undef
    IN  [ isInquirerQuestion |-> TRUE,
          name      |-> name,
          choices   |-> prps[name].choices,
          normalize |-> prps[name].normalize,
          default   |-> IF Falsy(defaultValue) THEN prps[name].default
                                               ELSE defaultValue ]

\* prompt.ts:33 the arguments that still need a value
argNeedsValue(val) == val = Undef \/ isEmpty(val)
\* A variant of optNeedsValue with the comparison inverted.
optNeedsValue_Inverted(val) == val # Undef

\* prompt.ts:38 the options that still need a value
optNeedsValue(val) == val = Undef

\* Array.prototype.map over a sequence of names
RECURSIVE MapPromptFor(_, _, _)
MapPromptFor(names, dflts, prps) ==
    IF names = <<>> THEN <<>>
    ELSE <<promptFor(Head(names), dflts, prps)>>
         \o MapPromptFor(Tail(names), dflts, prps)

\* prompt.ts:32-35
buildArgsQuestions(a, dflts, prps) ==
    MapPromptFor(
        SelectSeq(Keys(DOMAIN a),
                  LAMBDA k : argNeedsValue(a[k]) /\ ~hasEmptyChoices(prps[k])),
        dflts, prps)

\* prompt.ts:37-40
buildOptsQuestions(o, dflts, prps) ==
    MapPromptFor(
        SelectSeq(Keys(DOMAIN o),
                  LAMBDA k : optNeedsValue(o[k]) /\ ~hasEmptyChoices(prps[k])),
        dflts, prps)

\* prompt.ts:203-205: the normalize pass over the keys of merged
normalizePass(merged, prps) ==
    [k \in DOMAIN merged |->
        IF prps[k].normalize THEN normalize(merged[k]) ELSE merged[k]]

\* A variant of Interactive written with the `||` default idiom, which
\* turns an explicit false into the default.
Interactive_OrDefault ==
    IF interactive \in {"undefined", "false"} THEN TRUE ELSE interactive = "true"

\* prompt.ts:20
DEFAULT_INTERACTIVE_STATUS == TRUE
\* prompt.ts:31
Interactive ==
    IF interactive = "undefined" THEN DEFAULT_INTERACTIVE_STATUS
                                 ELSE interactive = "true"

QuestionNames(qs) == {qs[i].name : i \in DOMAIN qs}

(***************************************************************************)
(* inquirer.prompt(questions): one batched round that resolves with one    *)
(* answer per question or rejects.  An answer is what the user typed or    *)
(* the default the question carries.                                       *)
(***************************************************************************)
Typed == Val("typed")
AnswersOf(q) == {Typed} \cup (IF q.default = Undef THEN {} ELSE {q.default})
PromptOutcomes(qs) ==
    {ans \in [QuestionNames(qs) -> {Typed} \cup {qs[i].default : i \in DOMAIN qs}] :
        \A i \in DOMAIN qs : ans[qs[i].name] \in AnswersOf(qs[i])}

NotYet == [done |-> FALSE, value |-> EmptyObject]
Returned(obj) == [done |-> TRUE, value |-> obj]

(***************************************************************************)
(* The inputs of a promptIfNeeded call.                                    *)
(***************************************************************************)
\* At most MaxDeclared declarations (a name in args or a name in opts) per call.
MaxDeclared == 2

\* What a caller passes for a declared argument: nothing, an empty list (a
\* variadic argument given no word) or a value; and for a declared option:
\* nothing, the empty string or a value.
ArgValues == {Undef, EmptyList, Val("x")}
OptValues == {Undef, EmptyStr, Val("x")}
ArgObjects == UNION {[S -> ArgValues] : S \in SUBSET Names}
OptObjects == UNION {[S -> OptValues] : S \in SUBSET Names}
QuestionSpecs ==
    [choices : ChoiceKinds, default : {Undef, Val("pd")}, normalize : BOOLEAN]
DefaultValues == {False, Val("dv")}
DefaultsParams(declared) ==
    {[given |-> FALSE, entries |-> EmptyObject]} \cup
    {[given |-> TRUE, entries |-> e] :
        e \in UNION {[S -> DefaultValues] : S \in SUBSET declared}}

\* unlink.ts:29 setCommandProps(depNames): the choices are the linked
\* dependencies, an empty list when none is linked.
setCommandProps(depNames) ==
    [dependencies |->
        [choices |-> IF depNames = <<>> THEN "[]" ELSE "list",
         default |-> Undef,
         normalize |-> FALSE]]

\* unlink.ts:18-23: the promptIfNeeded call of the unlink action, given the
\* dependencies named on the command line and those linked.  No opts and no
\* defaults are passed.
UnlinkCall(dependencies, installedDependencies) ==
    /\ args0 = [dependencies |-> dependencies]
    /\ opts0 = EmptyObject
    /\ props = setCommandProps(installedDependencies)
    /\ ~defaults.given

Idle == [op |-> "none"]

InitPrompt ==
    /\ args \in ArgObjects
    /\ opts \in OptObjects
    /\ Cardinality(DOMAIN args) + Cardinality(DOMAIN opts) <= MaxDeclared
    /\ args0 = args
    /\ opts0 = opts
    /\ props \in [(DOMAIN args) \cup (DOMAIN opts) -> QuestionSpecs]
    /\ defaults \in DefaultsParams((DOMAIN args) \cup (DOMAIN opts))
    /\ interactive \in {"true", "false", "undefined"}
    /\ pc = "call"
    /\ argsQuestions = <<>>
    /\ optsQuestions = <<>>
    /\ argsAnswers = NotYet
    /\ result = NotYet
    /\ failure = "none"
    /\ promptLog = <<>>
    /\ env = Idle
    /\ call = Idle
    /\ ret = Idle

(***************************************************************************)
(* promptIfNeeded, prompt.ts:30-46, with answersFor, prompt.ts:200-208,    *)
(* inlined at its two call sites.  The call runs to its first await: it    *)
(* builds both question lists and enters answersFor(args, ...), which      *)
(* either hands argsQuestions to inquirer.prompt and suspends, or (not     *)
(* interactive) takes the args object itself as `merged` and normalizes it.*)
(***************************************************************************)
Start ==
    /\ pc = "call"
    /\ argsQuestions' = buildArgsQuestions(args, defaults, props)
    /\ optsQuestions' = buildOptsQuestions(opts, defaults, props)
    /\ IF Interactive
       THEN /\ promptLog' = Append(promptLog, argsQuestions')
            /\ pc' = "awaitArgs"
            /\ UNCHANGED <<args, argsAnswers>>
       ELSE /\ args' = normalizePass(args, props)     \* merged is inputs itself
            /\ argsAnswers' = Returned(args')
            /\ pc' = "argsDone"
            /\ UNCHANGED promptLog
    /\ UNCHANGED <<opts, args0, opts0, props, defaults, interactive, result,
                   failure, callVars>>

\* The args round resolves: answersFor merges into a fresh object, normalizes
\* it and returns; promptIfNeeded goes on to answersFor(opts, ...), which
\* hands optsQuestions to inquirer.prompt and suspends.
ResolveArgs ==
    /\ pc = "awaitArgs"
    /\ \E answers \in PromptOutcomes(argsQuestions) :
          argsAnswers' = Returned(normalizePass(Spread(args, answers), props))
    /\ promptLog' = Append(promptLog, optsQuestions)
    /\ pc' = "awaitOpts"
    /\ UNCHANGED <<args, opts, args0, opts0, props, defaults, interactive,
                   argsQuestions, optsQuestions, result, failure, callVars>>

\* A variant of RejectArgs in which the rejection of the args round is
\* caught and the call carries on with the opts round.
RejectArgs_Swallowed ==
    /\ pc = "awaitArgs"
    /\ failure' = "args"
    /\ argsAnswers' = Returned(normalizePass(args, props))
    /\ promptLog' = Append(promptLog, optsQuestions)
    /\ pc' = "awaitOpts"
    /\ UNCHANGED <<args, opts, args0, opts0, props, defaults, interactive,
                   argsQuestions, optsQuestions, result, callVars>>

\* The args round rejects: the await at prompt.ts:201 throws, answersFor
\* rejects, the await at prompt.ts:43 throws and promptIfNeeded rejects.
RejectArgs ==
    /\ pc = "awaitArgs"
    /\ failure' = "args"
    /\ pc' = "failed"
    /\ UNCHANGED <<args, opts, args0, opts0, props, defaults, interactive,
                   argsQuestions, optsQuestions, argsAnswers, result,
                   promptLog, callVars>>

\* The opts round resolves: prompt.ts:44, then the object literal of
\* prompt.ts:42-45 is returned.
ResolveOpts ==
    /\ pc = "awaitOpts"
    /\ \E answers \in PromptOutcomes(optsQuestions) :
          result' = Returned(Spread(argsAnswers.value,
                                    normalizePass(Spread(opts, answers), props)))
    /\ pc' = "done"
    /\ UNCHANGED <<args, opts, args0, opts0, props, defaults, interactive,
                   argsQuestions, optsQuestions, argsAnswers, failure,
                   promptLog, callVars>>

\* The opts round rejects.
RejectOpts ==
    /\ pc = "awaitOpts"
    /\ failure' = "opts"
    /\ pc' = "failed"
    /\ UNCHANGED <<args, opts, args0, opts0, props, defaults, interactive,
                   argsQuestions, optsQuestions, argsAnswers, result,
                   promptLog, callVars>>

\* Not interactive: answersFor(opts, ...) takes the opts object itself as
\* `merged`, normalizes it, and promptIfNeeded returns the object literal.
AnswersForOpts ==
    /\ pc = "argsDone"
    /\ opts' = normalizePass(opts, props)
    /\ result' = Returned(Spread(argsAnswers.value, opts'))
    /\ pc' = "done"
    /\ UNCHANGED <<args, args0, opts0, props, defaults, interactive,
                   argsQuestions, optsQuestions, argsAnswers, failure,
                   promptLog, callVars>>

NextPrompt ==
    \/ Start
    \/ ResolveArgs
    \/ RejectArgs
    \/ ResolveOpts
    \/ RejectOpts
    \/ AnswersForOpts

SpecPrompt == InitPrompt /\ [][NextPrompt]_vars

(***************************************************************************)
(* Properties of promptIfNeeded.                                           *)
(***************************************************************************)
Declared == (DOMAIN args0) \cup (DOMAIN opts0)

\* The value the caller passed for a declared name; for a name declared in
\* both namespaces the opts entry is merged last.
InputOf(n) == IF n \in DOMAIN opts0 THEN opts0[n] ELSE args0[n]

\* A value after the name's normalize, if its QuestionSpec declares one.
IfNormalized(n, val) == IF props[n].normalize THEN normalize(val) ELSE val
NormalizedInput(n) == IfNormalized(n, InputOf(n))

\* The name is unset in the namespace whose entry reaches the result.
Unset(n) ==
    IF n \in DOMAIN opts0 THEN opts0[n] = Undef
    ELSE args0[n] = Undef \/ isEmpty(args0[n])

AllSupplied ==
    /\ \A n \in DOMAIN args0 : args0[n] # Undef /\ ~isEmpty(args0[n])
    /\ \A n \in DOMAIN opts0 : opts0[n] # Undef

\* Every question of every list handed to inquirer.prompt so far.
Asked == UNION {QuestionNames(promptLog[i]) : i \in DOMAIN promptLog}

ReturnsNormalizedInputs ==
    result.done =>
        /\ DOMAIN result.value = Declared
        /\ \A n \in Declared : result.value[n] = NormalizedInput(n)

\* C1 as stated: when every declared arg is defined and non-empty and every
\* declared opt is defined, inquirer.prompt is never invoked, and the
\* returned AnswerSet maps each name to its (normalized) input value.
C1_PromptNeverInvoked ==
    AllSupplied => promptLog = <<>> /\ ReturnsNormalizedInputs

\* C1 amended: when every declared arg is defined and non-empty and every
\* declared opt is defined, no question is ever handed to inquirer.prompt
\* (in interactive mode it is still invoked, with an empty question list;
\* otherwise it is not invoked), and the returned AnswerSet maps each
\* declared name to its (normalized) input value.
C1_NoQuestionAsked ==
    AllSupplied =>
        /\ \A i \in DOMAIN promptLog : promptLog[i] = <<>>
        /\ ~Interactive => promptLog = <<>>
        /\ ReturnsNormalizedInputs

C1_Witness ==
    /\ AllSupplied
    /\ Interactive
    /\ result.done
    /\ Len(promptLog) = 2
    /\ DOMAIN args0 # {}
    /\ DOMAIN opts0 # {}
    /\ \E n \in Declared : props[n].normalize

StaticEmptyChoices == {n \in Declared : props[n].choices = "[]"}

\* C2 as stated: a name whose QuestionSpec has a static empty choices list is
\* never in a question list handed to the prompt, and its value in the
\* returned AnswerSet is undefined.  The claim is read here only for the
\* names the caller left unset, and with the name's normalize, if declared,
\* applied to that undefined.
C2_EmptyChoicesUndefined ==
    \A n \in StaticEmptyChoices :
        /\ n \notin Asked
        /\ (result.done /\ Unset(n)) =>
              result.value[n] = IfNormalized(n, Undef)

\* C2 amended: a name whose QuestionSpec has a static empty choices list is
\* never in a question list built for or handed to the prompt, and its value
\* in the returned AnswerSet is the value the caller passed, after normalize
\* if declared (so undefined only if the caller passed undefined and no
\* normalize is declared; unlink's empty dependencies list stays the empty
\* list).
C2_EmptyChoicesNotAsked ==
    \A n \in StaticEmptyChoices :
        /\ n \notin Asked
        /\ n \notin QuestionNames(argsQuestions) \cup QuestionNames(optsQuestions)
        /\ result.done => result.value[n] = NormalizedInput(n)

\* unlink with nothing linked and no dependency named on the command line:
\* args = { dependencies: [] }, choices = []; the result carries the empty
\* list, and both rounds ran with no question.
C2_Witness ==
    /\ UnlinkCall(EmptyList, <<>>)
    /\ Interactive
    /\ result.done
    /\ result.value = [dependencies |-> EmptyList]
    /\ promptLog = << <<>>, <<>> >>

\* C3 as stated: with interactive = false inquirer.prompt is never invoked,
\* every unset name is undefined in the returned AnswerSet, and every supplied
\* name carries its supplied value after normalize.  The unset names are
\* read as those a question is built for, and their undefined with the
\* name's normalize, if declared, applied to it.
C3_UnsetStaysUndefined ==
    interactive = "false" =>
        /\ promptLog = <<>>
        /\ result.done =>
              \A n \in Declared :
                  /\ (Unset(n) /\ ~hasEmptyChoices(props[n]))
                        => result.value[n] = IfNormalized(n, Undef)
                  /\ ~Unset(n) => result.value[n] = NormalizedInput(n)

\* C3 amended: with interactive = false inquirer.prompt is never invoked, and
\* every declared name, unset or supplied, carries in the returned AnswerSet
\* the value the caller passed for it (undefined, or the empty value passed),
\* after normalize when its QuestionSpec declares one; no default is
\* substituted.
C3_NonInteractivePassThrough ==
    interactive = "false" =>
        /\ promptLog = <<>>
        /\ ReturnsNormalizedInputs

C3_Witness ==
    /\ interactive = "false"
    /\ result.done
    /\ \E i \in DOMAIN argsQuestions : argsQuestions[i].default # Undef
    /\ optsQuestions # <<>>
    /\ \E n \in Declared : Unset(n) /\ props[n].normalize

\* C4: the args round completes before the opts round starts; a failed round
\* fails the whole call with that failure and no AnswerSet is returned; when
\* the args round fails the opts round is never started.
C4_RoundsInOrderFailureWhole ==
    /\ Len(promptLog) <= 2
    /\ Len(promptLog) >= 1 => promptLog[1] = argsQuestions
    /\ Len(promptLog) = 2 => argsAnswers.done /\ promptLog[2] = optsQuestions
    /\ (pc = "failed") = (failure # "none")
    /\ pc = "failed" => ~result.done
    /\ failure = "args" => Len(promptLog) = 1 /\ ~argsAnswers.done
    /\ failure = "opts" => Len(promptLog) = 2
    /\ result.done => pc = "done" /\ failure = "none"

C4_Witness ==
    /\ pc = "failed"
    /\ failure = "opts"
    /\ argsQuestions # <<>>
    /\ optsQuestions # <<>>
    /\ \E n \in QuestionNames(argsQuestions) : argsAnswers.value[n] = Typed

HasDefaultsEntry(n) == defaults.given /\ n \in DOMAIN defaults.entries

\* C5: every question built by promptFor carries defaults[name] as its
\* default whenever defaults has an entry for the name, whatever that value
\* is, and the QuestionSpec's own default only when defaults has no entry.
C5_DefaultsEntryWins ==
    \A qs \in {argsQuestions, optsQuestions} :
        \A i \in DOMAIN qs :
            qs[i].default = IF HasDefaultsEntry(qs[i].name)
                            THEN defaults.entries[qs[i].name]
                            ELSE props[qs[i].name].default

\* C6: promptIfNeeded does not mutate its inputs: the caller's args and opts
\* hold the values they held before the call.
C6_InputsNotMutated ==
    /\ args = args0
    /\ opts = opts0

(***************************************************************************)
(* proxyInfo and proxiesList, prompt.ts:53-112.                            *)
(*                                                                         *)
(* Strings are TLA+ strings; a JS undefined among them is Undefined.  env  *)
(* holds what new ZosPackageFile() gives the call: the project's name and  *)
(* the network file's proxies, in record order.                            *)
(***************************************************************************)
Undefined == "undefined"
Truthy(x) == x # Undefined /\ x # ""

\* The sequences over S of length at most n.
SeqsUpTo(S, n) == UNION {[1..k -> S] : k \in 0..n}

LocalName == "local"
Packages == {"local", "dep"}
Contracts == {"Foo", "Bar"}
Addresses == {"0xAA", "0xBB"}
ProxyRecords == [package : Packages, contract : Contracts, address : Addresses]
MaxProxies == 3

\* utils/naming toContractFullName: `package/alias` when the package differs
\* from the local project, bare `alias` otherwise.
toContractFullName(packageName, contractName) ==
    IF ~Truthy(packageName) \/ packageName = LocalName
    THEN contractName
    ELSE packageName \o "/" \o (IF contractName = Undefined THEN "" ELSE contractName)

\* ZosNetworkFile getProxies(query): the records matching every field the
\* query gives, in record order; an empty query matches all records.
MatchesQuery(r, q) ==
    /\ Truthy(q.package) => r.package = q.package
    /\ Truthy(q.contract) => r.contract = q.contract
    /\ Truthy(q.address) => r.address = q.address
getProxies(e, q) == SelectSeq(e.proxies, LAMBDA r : MatchesQuery(r, q))
hasProxies(e, q) == getProxies(e, q) # <<>>
AllProxies == [package |-> Undefined, contract |-> Undefined, address |-> Undefined]

\* A variant of proxyInfo that rebuilds the full name from the caller's
\* input instead of from the record found.
proxyInfo_FromInput(contractInfo, e) ==
    LET contractAlias == contractInfo.contractAlias
        proxyAddress == contractInfo.proxyAddress
        packageName == contractInfo.packageName
        proxyParams == [contract |-> contractAlias, address |-> proxyAddress,
                        package |-> packageName]
        contractFullName == toContractFullName(packageName, contractAlias)
    IN  IF ~Truthy(proxyAddress) /\ ~Truthy(contractAlias)
        THEN [proxyReference |-> Undefined, contractFullName |-> Undefined,
              address |-> Undefined]
        ELSE IF ~hasProxies(e, proxyParams)
        THEN [proxyReference |-> IF Truthy(proxyAddress) THEN proxyAddress
                                 ELSE contractFullName,
              contractFullName |-> contractFullName,
              address |-> Undefined]
        ELSE [contractFullName |-> contractFullName,
              address |-> getProxies(e, proxyParams)[1].address,
              proxyReference |-> IF Truthy(proxyAddress) THEN proxyAddress
                                 ELSE contractFullName]

\* prompt.ts:53 proxyInfo(contractInfo, network).  A result without an
\* address key reads as address undefined.
proxyInfo(contractInfo, e) ==
    LET contractAlias == contractInfo.contractAlias
        proxyAddress == contractInfo.proxyAddress
        packageName == contractInfo.packageName
        proxyParams == [contract |-> contractAlias, address |-> proxyAddress,
                        package |-> packageName]
    IN  IF ~Truthy(proxyAddress) /\ ~Truthy(contractAlias)
        THEN [proxyReference |-> Undefined, contractFullName |-> Undefined,
              address |-> Undefined]
        ELSE IF ~hasProxies(e, proxyParams)
        THEN LET contractFullName == toContractFullName(packageName, contractAlias)
             IN  [proxyReference |-> IF Truthy(proxyAddress) THEN proxyAddress
                                     ELSE contractFullName,
                  contractFullName |-> contractFullName,
                  address |-> Undefined]
        ELSE LET proxies == getProxies(e, proxyParams)
                 proxy == proxies[1]
                 contractFullName == toContractFullName(proxy.package, proxy.contract)
             IN  [contractFullName |-> contractFullName,
                  address |-> proxy.address,
                  proxyReference |-> IF Truthy(proxyAddress) THEN proxyAddress
                                     ELSE contractFullName]

\* The distinct elements of a sequence, in order of first occurrence.
RECURSIVE FirstSeen(_)
FirstSeen(seq) ==
    IF seq = <<>> THEN <<>>
    ELSE LET init == FirstSeen(SubSeq(seq, 1, Len(seq) - 1))
             last == seq[Len(seq)]
         IN  IF \E i \in DOMAIN init : init[i] = last THEN init
             ELSE Append(init, last)

\* lodash.groupby(proxies, 'package'): Object.keys of the result lists the
\* packages in order of first occurrence, each group in record order.
groupKeys(proxies) == FirstSeen([i \in DOMAIN proxies |-> proxies[i].package])
groupOf(proxies, packageName) ==
    SelectSeq(proxies, LAMBDA r : r.package = packageName)

\* lodash.uniqby(list, 'name'): the first element of each name, in order.
RECURSIVE uniqByName(_)
uniqByName(list) ==
    IF list = <<>> THEN <<>>
    ELSE LET init == uniqByName(SubSeq(list, 1, Len(list) - 1))
             last == list[Len(list)]
         IN  IF \E i \in DOMAIN init : init[i].name = last.name THEN init
             ELSE Append(init, last)

Separator(line) == [kind |-> "separator", line |-> line]

\* prompt.ts:92-105: the choice built for one proxy record
proxyChoice(r, packageName, pickProxyBy, e) ==
    LET name == IF pickProxyBy = "byAddress"
                THEN r.contract \o " at " \o r.address
                ELSE r.contract
        contractFullName == IF packageName = e.name
                            THEN r.contract
                            ELSE packageName \o "/" \o r.contract
        proxyReference == IF pickProxyBy = "byAddress" THEN r.address
                          ELSE contractFullName
    IN  [kind |-> "choice",
         name |-> name,
         value |-> [address |-> r.address,
                    contractFullName |-> contractFullName,
                    proxyReference |-> proxyReference]]

\* A variant of packageSection whose choices are not deduplicated.
packageSection_NoUniq(packageName, pickProxyBy, e) ==
    LET separator == IF packageName = e.name THEN "Local contracts" ELSE packageName
        group == groupOf(getProxies(e, AllProxies), packageName)
        packageList == [i \in DOMAIN group |->
                           proxyChoice(group[i], packageName, pickProxyBy, e)]
    IN  <<Separator(" = " \o separator \o " =")>> \o packageList

\* prompt.ts:89-108: the separator and the choices of one package
packageSection(packageName, pickProxyBy, e) ==
    LET separator == IF packageName = e.name THEN "Local contracts" ELSE packageName
        group == groupOf(getProxies(e, AllProxies), packageName)
        packageList == [i \in DOMAIN group |->
                           proxyChoice(group[i], packageName, pickProxyBy, e)]
    IN  <<Separator(" = " \o separator \o " =")>> \o uniqByName(packageList)

\* lodash.flatten of the sections of the packages named by keys
RECURSIVE flattenSections(_, _, _)
flattenSections(keys, pickProxyBy, e) ==
    IF keys = <<>> THEN <<>>
    ELSE packageSection(Head(keys), pickProxyBy, e)
         \o flattenSections(Tail(keys), pickProxyBy, e)

\* prompt.ts:82 proxiesList(network)(answer)
proxiesList(answer, e) ==
    flattenSections(groupKeys(getProxies(e, AllProxies)), answer.pickProxyBy, e)

PromptUnused ==
    /\ args = EmptyObject
    /\ opts = EmptyObject
    /\ args0 = EmptyObject
    /\ opts0 = EmptyObject
    /\ props = EmptyObject
    /\ defaults = [given |-> FALSE, entries |-> EmptyObject]
    /\ interactive = "undefined"
    /\ pc = "unused"
    /\ argsQuestions = <<>>
    /\ optsQuestions = <<>>
    /\ argsAnswers = NotYet
    /\ result = NotYet
    /\ failure = "none"
    /\ promptLog = <<>>

InitProxy ==
    /\ PromptUnused
    /\ env \in {[name |-> LocalName, proxies |-> ps] :
                    ps \in SeqsUpTo(ProxyRecords, MaxProxies)}
    /\ call = Idle
    /\ ret = Idle

AliasInputs == {Undefined} \cup Contracts
AddressInputs == {Undefined} \cup Addresses
PackageInputs == {Undefined} \cup Packages

CallProxyInfo ==
    /\ call = Idle
    /\ \E contractInfo \in [contractAlias : AliasInputs,
                            proxyAddress : AddressInputs,
                            packageName : PackageInputs] :
          /\ call' = [op |-> "proxyInfo", contractInfo |-> contractInfo]
          /\ ret' = proxyInfo(contractInfo, env)
    /\ UNCHANGED <<env, promptVars>>

CallProxiesList ==
    /\ call = Idle
    /\ \E answer \in [pickProxyBy : {"byAddress", "byName"}] :
          /\ call' = [op |-> "proxiesList", answer |-> answer]
          /\ ret' = [list |-> proxiesList(answer, env)]
    /\ UNCHANGED <<env, promptVars>>

NextProxy ==
    \/ CallProxyInfo
    \/ CallProxiesList

SpecProxy == InitProxy /\ [][NextProxy]_vars

(***************************************************************************)
(* Properties of proxyInfo and proxiesList.                                *)
(***************************************************************************)
\* The smallest element of a non-empty set of indices.
Least(S) == CHOOSE i \in S : \A j \in S : i <= j

FullNameOf(r) ==
    IF r.package = LocalName THEN r.contract ELSE r.package \o "/" \o r.contract

MatchingRecords ==
    {i \in DOMAIN env.proxies :
        MatchesQuery(env.proxies[i],
                     [contract |-> call.contractInfo.contractAlias,
                      address |-> call.contractInfo.proxyAddress,
                      package |-> call.contractInfo.packageName])}

\* C7: proxyInfo, given a contractAlias or a proxyAddress and at least one
\* matching ProxyRecord, answers from the first matching record in record
\* order: contractFullName from that record's package and contract (package
\* omitted when it is the local project's), address that record's address,
\* proxyReference the caller's proxyAddress if given and the returned
\* contractFullName otherwise; {contractAlias: Foo} against the single record
\* {local, Foo, 0xAA} yields {Foo, 0xAA, Foo}.
C7_FirstMatchingRecord ==
    call.op = "proxyInfo" =>
        /\ ( /\ \/ call.contractInfo.contractAlias # Undefined
                \/ call.contractInfo.proxyAddress # Undefined
             /\ MatchingRecords # {} ) =>
               LET r == env.proxies[Least(MatchingRecords)]
               IN  /\ ret.contractFullName = FullNameOf(r)
                   /\ ret.address = r.address
                   /\ ret.proxyReference =
                         IF call.contractInfo.proxyAddress # Undefined
                         THEN call.contractInfo.proxyAddress
                         ELSE ret.contractFullName
        /\ ( /\ call.contractInfo = [contractAlias |-> "Foo",
                                     proxyAddress |-> Undefined,
                                     packageName |-> Undefined]
             /\ env.proxies = <<[package |-> "local", contract |-> "Foo",
                                 address |-> "0xAA"]>> ) =>
               ret = [contractFullName |-> "Foo", address |-> "0xAA",
                      proxyReference |-> "Foo"]

\* Two records match the alias alone; the first is the dependency's.
C7_Witness ==
    /\ call.op = "proxyInfo"
    /\ call.contractInfo = [contractAlias |-> "Foo", proxyAddress |-> Undefined,
                            packageName |-> Undefined]
    /\ Cardinality(MatchingRecords) >= 2
    /\ env.proxies[Least(MatchingRecords)].package = "dep"
    /\ ret = [contractFullName |-> "dep/Foo",
              address |-> env.proxies[Least(MatchingRecords)].address,
              proxyReference |-> "dep/Foo"]
    /\ \E i \in MatchingRecords :
          env.proxies[i].address # ret.address

ChoiceIdx == {i \in DOMAIN ret.list : ret.list[i].kind = "choice"}
\* The separator that opens the group a choice is in.
GroupStart(i) ==
    LET before == {j \in 1..i : ret.list[j].kind = "separator"}
    IN  CHOOSE j \in before : \A k \in before : k <= j
GroupLabel(packageName) ==
    " = " \o (IF packageName = env.name THEN "Local contracts" ELSE packageName)
          \o " ="
DisplayName(r) ==
    IF call.answer.pickProxyBy = "byAddress"
    THEN r.contract \o " at " \o r.address
    ELSE r.contract
\* The choices displayed for record r in the group of r's package.
ChoicesFor(r) ==
    {i \in ChoiceIdx : /\ ret.list[GroupStart(i)].line = GroupLabel(r.package)
                       /\ ret.list[i].name = DisplayName(r)}
\* The first record of r's package with r's display name.
FirstLike(r) ==
    env.proxies[Least({k \in DOMAIN env.proxies :
                          /\ env.proxies[k].package = r.package
                          /\ DisplayName(env.proxies[k]) = DisplayName(r)})]

\* C8: in the list proxiesList returns, for either pickProxyBy answer, no two
\* choices of one package group have the same display name: records of one
\* package with the same display name collapse into exactly one choice, the
\* first such record's, and records with distinct display names each keep a
\* choice of their own.
C8_UniqueNamesPerGroup ==
    call.op = "proxiesList" =>
        /\ ret.list # <<>> => ret.list[1].kind = "separator"
        /\ \A i, j \in ChoiceIdx :
              i # j /\ GroupStart(i) = GroupStart(j)
                  => ret.list[i].name # ret.list[j].name
        /\ \A k \in DOMAIN env.proxies :
              LET r == env.proxies[k]
              IN  /\ Cardinality(ChoicesFor(r)) = 1
                  /\ \A i \in ChoicesFor(r) :
                        ret.list[i].value.address = FirstLike(r).address
        /\ Cardinality(ChoiceIdx) =
              Cardinality({<<env.proxies[k].package, DisplayName(env.proxies[k])>> :
                              k \in DOMAIN env.proxies})

\* Two proxies of the local Foo collapse by name; the local Bar keeps its own.
C8_Witness ==
    /\ call.op = "proxiesList"
    /\ call.answer.pickProxyBy = "byName"
    /\ env.proxies = <<[package |-> "local", contract |-> "Foo", address |-> "0xAA"],
                       [package |-> "local", contract |-> "Foo", address |-> "0xBB"],
                       [package |-> "local", contract |-> "Bar", address |-> "0xAA"]>>
    /\ Len(ret.list) = 3
    /\ ret.list[2].name = "Foo"
    /\ ret.list[2].value.address = "0xAA"
    /\ ret.list[3].name = "Bar"

(***************************************************************************)
(* contractsList, prompt.ts:115-151.                                       *)
(*                                                                         *)
(* env holds what the collaborators give the call: Truffle's contract      *)
(* names, the local package file's names and aliases, and the linked       *)
(* dependencies with the aliases of each one's own package file.           *)
(***************************************************************************)
MaxContracts == 2
MaxDependencies == 1

BuildNames == {"Foo", "Bar"}
LocalEntries == [name : {"Foo", "FooV2"}, alias : {"Foo"}]
DependencyEntries ==
    [name : {"dep1"}, contractAliases : SeqsUpTo({"A", "B"}, MaxContracts)]

Text(str) == [kind |-> "string", text |-> str]
EmptyArray == [kind |-> "array", items |-> <<>>]

\* prompt.ts:210 inquirerQuestion(name, message, type, choices)
inquirerQuestion(name, message, type, choices) ==
    [kind |-> "question", name |-> name, type |-> type, message |-> message,
     choices |-> choices]

\* prompt.ts:136-146: one dependency's contracts, under its separator
dependencySection(dep) ==
    LET contractNames == [i \in DOMAIN dep.contractAliases |->
                             Text(dep.name \o "/" \o dep.contractAliases[i])]
    IN  IF Len(contractNames) > 0
        THEN <<Separator(" = " \o dep.name \o " =")>> \o contractNames
        ELSE contractNames

RECURSIVE flattenDependencies(_)
flattenDependencies(deps) ==
    IF deps = <<>> THEN <<>>
    ELSE dependencySection(Head(deps)) \o flattenDependencies(Tail(deps))

\* Truffle.getContractNames(), prompt.ts:117
buildChoices(e) ==
    [i \in DOMAIN e.contractsFromBuild |-> Text(e.contractsFromBuild[i])]

\* prompt.ts:124-129: the local package file's contracts, labelled
localChoices(e) ==
    [i \in DOMAIN e.contractNamesAndAliases |->
        LET c == e.contractNamesAndAliases[i]
            label == IF c.name = c.alias THEN c.alias
                     ELSE c.alias \o "[" \o c.name \o "]"
        IN  [kind |-> "choice", name |-> label, value |-> c.alias]]

\* prompt.ts:134-149: the build contracts under "Local contracts", then the
\* dependencies' sections
allChoices(e) ==
    LET packageContracts == flattenDependencies(e.dependencies)
        contractsFromBuild ==
            IF Len(buildChoices(e)) > 0
            THEN <<Separator(" = Local contracts =")>> \o buildChoices(e)
            ELSE buildChoices(e)
    IN  contractsFromBuild \o packageContracts

\* A variant of contractsList whose last branch falls back to the build
\* directory's contracts.
contractsList_FallBack(name, message, type, source, e) ==
    IF source = "fromLocal"
    THEN inquirerQuestion(name, message, type, localChoices(e))
    ELSE IF source = "all"
    THEN inquirerQuestion(name, message, type, allChoices(e))
    ELSE inquirerQuestion(name, message, type, buildChoices(e))

\* prompt.ts:115 contractsList(name, message, type, source)
contractsList(name, message, type, source, e) ==
    IF ~Truthy(source) \/ source = "fromBuildDir"
    THEN inquirerQuestion(name, message, type, buildChoices(e))
    ELSE IF source = "fromLocal"
    THEN inquirerQuestion(name, message, type, localChoices(e))
    ELSE IF source = "all"
    THEN inquirerQuestion(name, message, type, allChoices(e))
    ELSE EmptyArray

InitCatalog ==
    /\ PromptUnused
    /\ env \in [contractsFromBuild : SeqsUpTo(BuildNames, MaxContracts),
                contractNamesAndAliases : SeqsUpTo(LocalEntries, 1),
                dependencies : SeqsUpTo(DependencyEntries, MaxDependencies)]
    /\ call = Idle
    /\ ret = Idle

\* The source parameter: absent, empty, the three modes and another word.
SourceInputs == {Undefined, "", "fromBuildDir", "fromLocal", "all", "fromRemote"}

CallContractsList ==
    /\ call = Idle
    /\ \E source \in SourceInputs :
          /\ call' = [op |-> "contractsList", source |-> source]
          /\ ret' = contractsList("contractFullName", "Pick a contract", "list",
                                  source, env)
    /\ UNCHANGED <<env, promptVars>>

NextCatalog == CallContractsList

SpecCatalog == InitCatalog /\ [][NextCatalog]_vars

KnownSources == {"fromBuildDir", "fromLocal", "all"}

\* C10 as stated: contractsList called with any source other than
\* 'fromBuildDir', 'fromLocal' or 'all', an absent or empty source included,
\* returns an empty sequence.
C10_UnknownSourceEmpty ==
    (call.op = "contractsList" /\ call.source \notin KnownSources)
        => ret = EmptyArray

\* C10 amended: contractsList called with a non-empty source other than
\* 'fromBuildDir', 'fromLocal' or 'all' returns an empty sequence and no
\* build-artifact, manifest or dependency contract; called with an absent or
\* empty source it answers as for 'fromBuildDir', with the question listing
\* the build-artifact contracts.
C10_UnknownWordEmptyAbsentIsBuildDir ==
    call.op = "contractsList" =>
        /\ (call.source \notin KnownSources /\ call.source \notin {Undefined, ""})
              => ret = EmptyArray
        /\ call.source \in {Undefined, ""} =>
              /\ ret.kind = "question"
              /\ Len(ret.choices) = Len(env.contractsFromBuild)
              /\ \A i \in DOMAIN ret.choices :
                    ret.choices[i] = Text(env.contractsFromBuild[i])

C10_Witness ==
    /\ call.op = "contractsList"
    /\ call.source = "fromRemote"
    /\ env.contractsFromBuild # <<>>
    /\ env.contractNamesAndAliases # <<>>
    /\ \E i \in DOMAIN env.dependencies : env.dependencies[i].contractAliases # <<>>
    /\ ret = EmptyArray

(***************************************************************************)
(* argsList, initArgsForPrompt and contractMethods, prompt.ts:165-197.     *)
(*                                                                         *)
(* env.contracts maps each locally known contract full name to the method  *)
(* list methodsFromAst gives for it.  A method's name and selector are     *)
(* strings; both are compared with the same methodIdentifier.              *)
(***************************************************************************)
MaxMethods == 2

InputLists ==
    { <<>>,
      <<[name |-> "amount", type |-> "uint256"]>>,
      <<[name |-> "to", type |-> "address"], [name |-> "amount", type |-> "uint256"]>> }
Methods == [name : {"f", "g"}, selector : {"f", "f(uint256)"}, inputs : InputLists]

\* prompt.ts:190 contractMethods(contractFullName)
contractMethods(contractFullName, e) ==
    IF contractFullName \notin DOMAIN e.contracts THEN <<>>
    ELSE e.contracts[contractFullName]

\* A variant of findMethod that looks for a selector before it looks for a
\* name.
findMethod_SelectorFirst(methods, methodIdentifier) ==
    LET bySelector == {i \in DOMAIN methods : methods[i].selector = methodIdentifier}
        byName == {i \in DOMAIN methods : methods[i].name = methodIdentifier}
    IN  IF bySelector # {} THEN <<methods[Least(bySelector)]>>
        ELSE IF byName # {} THEN <<methods[Least(byName)]>>
        ELSE <<>>

\* prompt.ts:167-168 and 180-181: Array.prototype.find with the predicate
\* selector === methodIdentifier || name === methodIdentifier; <<m>> for the
\* method found, <<>> for undefined.
RECURSIVE findMethod(_, _)
findMethod(methods, methodIdentifier) ==
    IF methods = <<>> THEN <<>>
    ELSE IF \/ Head(methods).selector = methodIdentifier
            \/ Head(methods).name = methodIdentifier
         THEN <<Head(methods)>>
         ELSE findMethod(Tail(methods), methodIdentifier)

\* prompt.ts:165 argsList(contractFullName, methodIdentifier)
argsList(contractFullName, methodIdentifier, e) ==
    LET method == findMethod(contractMethods(contractFullName, e), methodIdentifier)
    IN  IF method # <<>>
        THEN [i \in DOMAIN method[1].inputs |-> method[1].inputs[i].name]
        ELSE <<>>

\* prompt.ts:179 initArgsForPrompt(contractFullName, methodIdentifier): an
\* object with one key per input name, each undefined.
initArgsForPrompt(contractFullName, methodIdentifier, e) ==
    LET method == findMethod(contractMethods(contractFullName, e), methodIdentifier)
    IN  IF method # <<>>
        THEN [k \in {method[1].inputs[i].name : i \in DOMAIN method[1].inputs}
                 |-> Undefined]
        ELSE [k \in {} |-> Undefined]

InitMethods ==
    /\ PromptUnused
    /\ env \in [contracts : [{"Foo"} -> SeqsUpTo(Methods, MaxMethods)]]
    /\ call = Idle
    /\ ret = Idle

FullNameInputs == {"Foo", "dep/Missing"}
IdentifierInputs == {"f", "g", "f(uint256)", "h"}

CallArgsList ==
    /\ call = Idle
    /\ \E contractFullName \in FullNameInputs, methodIdentifier \in IdentifierInputs :
          /\ call' = [op |-> "argsList", contractFullName |-> contractFullName,
                      methodIdentifier |-> methodIdentifier]
          /\ ret' = [names |-> argsList(contractFullName, methodIdentifier, env)]
    /\ UNCHANGED <<env, promptVars>>

CallInitArgsForPrompt ==
    /\ call = Idle
    /\ \E contractFullName \in FullNameInputs, methodIdentifier \in IdentifierInputs :
          /\ call' = [op |-> "initArgsForPrompt",
                      contractFullName |-> contractFullName,
                      methodIdentifier |-> methodIdentifier]
          /\ ret' = [object |-> initArgsForPrompt(contractFullName,
                                                  methodIdentifier, env)]
    /\ UNCHANGED <<env, promptVars>>

NextMethods ==
    \/ CallArgsList
    \/ CallInitArgsForPrompt

SpecMethods == InitMethods /\ [][NextMethods]_vars

\* The methods of the contract the call names (none if it is not known).
MethodsOfCall ==
    IF call.contractFullName \in DOMAIN env.contracts
    THEN env.contracts[call.contractFullName]
    ELSE <<>>
SelectorMatches ==
    {i \in DOMAIN MethodsOfCall : MethodsOfCall[i].selector = call.methodIdentifier}
NameMatches ==
    {i \in DOMAIN MethodsOfCall : MethodsOfCall[i].name = call.methodIdentifier}
InputNames(m) == [i \in DOMAIN m.inputs |-> m.inputs[i].name]
\* What the call returned, as the set of input names and, for argsList, as
\* their sequence.
ReturnsInputsOf(m) ==
    IF call.op = "argsList"
    THEN ret.names = InputNames(m)
    ELSE DOMAIN ret.object = {m.inputs[i].name : i \in DOMAIN m.inputs}
ReturnsNothing ==
    IF call.op = "argsList" THEN ret.names = <<>> ELSE DOMAIN ret.object = {}

=============================================================================
